---- MODULE Spec2Model ----
(***************************************************************************)
(* Marionette PFSM engine.                                                 *)
(*                                                                         *)
(* The repository holds two implementations of the engine:                 *)
(*   fsm  (interface FSM + struct fsm, with Execute, Reset, Listen, Clone) *)
(*   FSM  (struct FSM, plugins return (success, err))                      *)
(* Definitions prefixed fsm_ model the first, FSM_ the second.             *)
(***************************************************************************)
EXTENDS Integers, Sequences, FiniteSets, TLC

VARIABLES
    fsms,       \* slot -> fsm struct (or Nil when the slot holds no fsm)
    inbuf,      \* slot -> bytes buffered on the fsm's connection, unread
    sent,       \* slot -> number of writes made on the fsm's connection
    lmaps,      \* listener map objects: map id -> (port -> listener)
    nres,       \* number of listeners and connections opened so far
    closeLog,   \* the Close() calls made on them, in order
    pc,         \* slot -> position of a running Execute ("idle" when none)
    crashed,    \* slot -> TRUE once an assertion has panicked in it
    hist,       \* slot -> the calls made on the fsm
    mock,       \* TRUE when a mock feeds a second fsm the inputs of the first
    plugins,    \* the plugin registry: (module, method) -> plugin function
    regLog,     \* the calls of RegisterPlugin made so far, in order
    cipher,     \* the FTE cipher of the test: open or closed, calls made on it
    last        \* the most recent call: what it was given and what it did

vars == <<fsms, inbuf, sent, lmaps, nres, closeLog, pc, crashed, hist, mock,
          plugins, regLog, cipher, last>>

----------------------------------------------------------------------------
(* Bounds *)

MaxCalls == 3       \* calls of Next recorded per fsm
MaxBuf == 1         \* bytes buffered on a connection
MaxRes == 2         \* listeners and connections opened
MaxID == 2          \* instance IDs are 0..MaxID
NumPorts == 2       \* ports are 1..NumPorts

Slots == {1, 2}
CloneSlot == 3
InstanceIDs == 0..MaxID
Ports == 1..NumPorts
Bytes == {"g", "x"}     \* a well-formed and a corrupt covertext

Nil == "nil"

(* Error values *)
ErrNoTransitions == "no transitions available"
ErrRetryTransition == "retry transition"
ErrNoTransition == "no matching transition"
ErrBlockNotFound == "action block not found"
ErrPluginNotFound == "plugin not found"
ErrPlugin == "plugin error"
ErrRegex == "regexp compile error"
ErrNoListeners == "no listeners on port"
ErrNet == "network error"
ErrNoConn == "no connection available"
Panic == "panic: assertion failed"
Blocked == "blocked"
ErrCancelled == "context canceled"

PartyClient == "client"
PartyServer == "server"
Parties == {PartyClient, PartyServer}

----------------------------------------------------------------------------
(* MAR documents *)

Scale == 2      \* probabilities are counted in units of 1/Scale

T(src, dst, blk, p, e) ==
    [Source |-> src, Destination |-> dst, ActionBlock |-> blk,
     Probability |-> p, IsError |-> e]

A(party, module, method, regex) ==
    [Party |-> party, Module |-> module, Method |-> method, Regex |-> regex]

c2s == <<A(PartyClient, "io", "puts", ""), A(PartyServer, "fte", "recv", "")>>
s2c == <<A(PartyServer, "io", "puts", ""), A(PartyClient, "fte", "recv", "")>>
bind == <<A(PartyServer, "channel", "bind", "")>>

\* Blocks with actions under a regex, with several actions for a party, with
\* a plugin that no package registers (tg.send), with actions for one party
\* only
mix == <<A(PartyServer, "channel", "bind", ""),
         A(PartyClient, "fte", "recv", "g"),
         A(PartyClient, "io", "puts", "")>>
guarded == <<A(PartyClient, "fte", "recv", "g"),
             A(PartyServer, "io", "puts", "g")>>
ext == <<A(PartyClient, "tg", "send", ""),
         A(PartyClient, "io", "puts", ""),
         A(PartyServer, "fte", "recv", "")>>
srv == <<A(PartyServer, "io", "puts", "")>>

Docs == <<
    \* 1: a branch, an error transition, a receive on either side
    [UUID |-> 1, Port |-> "1", First |-> PartyClient,
     Transitions |-> <<T("start", "a", "s2c", 1, FALSE),
                       T("start", "b", "NULL", 1, FALSE),
                       T("start", "dead", "NULL", 0, TRUE),
                       T("a", "dead", "c2s", 2, FALSE),
                       T("b", "dead", "NULL", 2, FALSE)>>,
     Blocks |-> [n \in {"c2s", "s2c"} |-> IF n = "c2s" THEN c2s ELSE s2c]],
    \* 2: a state with error transitions only, a named port, channel.bind
    [UUID |-> 2, Port |-> "port", First |-> PartyServer,
     Transitions |-> <<T("start", "a", "bind", 2, FALSE),
                       T("a", "e", "c2s", 2, FALSE),
                       T("e", "dead", "NULL", 0, TRUE)>>,
     Blocks |-> [n \in {"c2s", "bind"} |-> IF n = "c2s" THEN c2s ELSE bind]],
    \* 3: a request and its answer
    [UUID |-> 3, Port |-> "2", First |-> PartyClient,
     Transitions |-> <<T("start", "a", "c2s", 2, FALSE),
                       T("a", "dead", "s2c", 2, FALSE),
                       T("a", "dead", "NULL", 0, TRUE)>>,
     Blocks |-> [n \in {"c2s", "s2c"} |-> IF n = "c2s" THEN c2s ELSE s2c]],
    \* 4: guards, a plugin that is not registered, blocks for one party
    [UUID |-> 4, Port |-> "2", First |-> PartyClient,
     Transitions |-> <<T("start", "a", "mix", 1, FALSE),
                       T("start", "b", "guarded", 1, FALSE),
                       T("start", "dead", "NULL", 0, TRUE),
                       T("a", "c", "ext", 1, FALSE),
                       T("a", "dead", "srv", 1, FALSE),
                       T("b", "dead", "srv", 2, FALSE),
                       T("c", "dead", "NULL", 2, FALSE)>>,
     Blocks |-> [n \in {"mix", "guarded", "ext", "srv"} |->
                    CASE n = "mix" -> mix
                      [] n = "guarded" -> guarded
                      [] n = "ext" -> ext
                      [] n = "srv" -> srv]]
>>

\* The plugins that the plugins package registers when it is loaded; a
\* plugin function is named by the key it is written for.
Registered == {<<"io", "puts">>, <<"fte", "recv">>, <<"channel", "bind">>}

----------------------------------------------------------------------------
(* Helpers on sequences *)

RECURSIVE SelectSeqBy(_, _, _)
SelectSeqBy(s, i, keep) ==
    IF i > Len(s) THEN <<>>
    ELSE (IF s[i] \in keep THEN <<s[i]>> ELSE <<>>) \o SelectSeqBy(s, i + 1, keep)

Range(s) == {s[i] : i \in 1..Len(s)}

\* F(v), the argument v being worked out once (the result of a call that
\* the code holds in a local variable)
With(v, F(_)) == CHOOSE y \in {F(x) : x \in {v}} : TRUE

(* mar package: filters and choice *)

FilterTransitionsBySource(ts, name) ==
    SelectSeqBy(ts, 1, {t \in Range(ts) : t.Source = name})

FilterErrorTransitions(ts) ==
    SelectSeqBy(ts, 1, {t \in Range(ts) : t.IsError})

FilterNonErrorTransitions(ts) ==
    SelectSeqBy(ts, 1, {t \in Range(ts) : ~t.IsError})

FilterActionsByParty(actions, party) ==
    SelectSeqBy(actions, 1, {a \in Range(actions) : a.Party = party})

HasActionBlock(doc, name) == name \in DOMAIN Docs[doc].Blocks

ActionBlock(doc, name) == Docs[doc].Blocks[name]

FirstSender(doc) == Docs[doc].First

(* math/rand: a generator is its internal state x and the number n of draws
   made from it; the same seed gives the same sequence. *)
RandMod == 8

NoRand == [set |-> FALSE, x |-> 0, n |-> 0]

NewRand(seed) == [set |-> TRUE, x |-> seed % RandMod, n |-> 0]

RandStep(r) == [set |-> TRUE, x |-> (5 * r.x + 3) % RandMod, n |-> r.n + 1]

RandCoin(r) == RandStep(r).x \div (RandMod \div Scale)

RECURSIVE Pick(_, _, _, _)
Pick(ts, i, sum, coin) ==
    IF i > Len(ts) THEN ts
    ELSE IF sum + ts[i].Probability > coin THEN <<ts[i]>>
    ELSE Pick(ts, i + 1, sum + ts[i].Probability, coin)

\* One weighted sample when the PRNG is available, else every transition.
ChooseTransitions(ts, rand) ==
    IF ~rand.set THEN [ts |-> ts, rand |-> rand]
    ELSE [ts |-> Pick(ts, 1, 0, RandCoin(rand)), rand |-> RandStep(rand)]

----------------------------------------------------------------------------
(* The fsm struct and the objects it refers to *)

EmptyVars == [k \in {} |-> 0]

NoConn == 0         \* fsm.conn == nil
CallerConn == -1    \* the net.Conn handed to NewFSM

Resource(id, kind, port) == [id |-> id, kind |-> kind, port |-> port]

IsClosed(log, r) == \E i \in 1..Len(log) : log[i] = r

\* What the plugin called last returned
NoRet == [called |-> FALSE, success |-> FALSE, err |-> Nil]

\* What plugins have done: those called, the bytes left unread, the writes
Side(inv, buf, n) == [inv |-> inv, buf |-> buf, sent |-> n]

\* The state a call works on: the fsm and what its plugins can reach.
Ctx(x) ==
    [f |-> fsms[x], buf |-> inbuf[x], sent |-> sent[x], lm |-> lmaps,
     nres |-> nres, log |-> closeLog,
     inv |-> <<>>, cands |-> <<>>, tried |-> <<>>, nextState |-> "",
     success |-> TRUE, err |-> Nil, lport |-> -1, replayed |-> fsms[x],
     side |-> Side(<<>>, inbuf[x], sent[x]), ret |-> NoRet]

Fail(c, e) == [c EXCEPT !.err = e, !.success = FALSE, !.nextState = ""]

\* The PRNG seeded with a value of its own, not with the instance ID
initFirstSender_unseeded(f, id) ==
    IF f.party # FirstSender(f.doc) THEN f
    ELSE [f EXCEPT !.instanceID = id, !.rand = NewRand(id + f.fteCache)]

initFirstSender(f, id) ==
    IF f.party # FirstSender(f.doc) THEN f
    ELSE [f EXCEPT !.instanceID = id, !.rand = NewRand(id)]

NewFSM(doc, party, conn, streamSet, cache, lmap, id) ==
    initFirstSender(
        [state |-> "start", vars |-> EmptyVars, doc |-> doc, party |-> party,
         fteCache |-> cache, conn |-> conn, streamSet |-> streamSet,
         listeners |-> lmap, closeFuncs |-> <<>>, stepN |-> 0,
         rand |-> NoRand, instanceID |-> 0], id)

Dead(f) == f.state = "dead"

IsNumber(s) == s \in {"1", "2"}
Atoi(s) == IF s = "1" THEN 1 ELSE 2

Var(f, key) == IF key \in DOMAIN f.vars THEN f.vars[key] ELSE 0

Port(f) ==
    IF IsNumber(Docs[f.doc].Port) THEN Atoi(Docs[f.doc].Port)
    ELSE Var(f, Docs[f.doc].Port)

SetVar(f, key, value) ==
    [f EXCEPT !.vars = [k \in DOMAIN f.vars \cup {key} |->
                            IF k = key THEN value ELSE f.vars[k]]]

\* net.Listen succeeds on a port no open listener holds.
PortFree(c, port) ==
    \A m \in DOMAIN c.lm : port \in DOMAIN c.lm[m] =>
        IsClosed(c.log, c.lm[m][port])

Listen(c, env) ==
    IF env.port = 0 \/ ~PortFree(c, env.port)
    THEN [Fail(c, ErrNet) EXCEPT !.lport = 0]
    ELSE LET ln == Resource(c.nres + 1, "listener", env.port)
             m == c.f.listeners
         IN [c EXCEPT !.nres = @ + 1, !.lport = env.port,
                      !.lm[m] = [p \in DOMAIN c.lm[m] \cup {env.port} |->
                                    IF p = env.port THEN ln ELSE c.lm[m][p]],
                      !.f.closeFuncs = Append(@, ln)]

----------------------------------------------------------------------------
(* Plugins.  FindPlugin looks (module, method) up in the registry; a key
   that is not in the map gives the nil function, <<>>. *)

pluginKey(module, method) == <<module, method>>

FindPluginIn(registry, module, method) ==
    IF pluginKey(module, method) \in DOMAIN registry
    THEN registry[pluginKey(module, method)] ELSE <<>>

FindPlugin(module, method) == FindPluginIn(plugins, module, method)

\* RegisterPlugin that stores over what is registered
RegisterPlugin_overwrite(registry, module, method, fn) ==
    [plugins |-> [k \in DOMAIN registry \cup {pluginKey(module, method)} |->
                    IF k = pluginKey(module, method) THEN fn ELSE registry[k]],
     err |-> Nil]

\* RegisterPlugin: the registry it leaves, and whether it panicked
RegisterPlugin(registry, module, method, fn) ==
    IF FindPluginIn(registry, module, method) # <<>>
    THEN [plugins |-> registry, err |-> Panic]
    ELSE [plugins |-> [k \in DOMAIN registry \cup {pluginKey(module, method)} |->
                         IF k = pluginKey(module, method) THEN fn
                         ELSE registry[k]],
          err |-> Nil]

\* fte.recv: nothing buffered - not yet; a corrupt covertext - an error.
fte_recv(c0) ==
    With(c0, LAMBDA c :
    IF c.buf = <<>> THEN [c EXCEPT !.success = FALSE]
    ELSE IF Head(c.buf) = "x" THEN Fail(c, ErrPlugin)
    ELSE [c EXCEPT !.buf = Tail(@)])

io_puts(c) == [c EXCEPT !.sent = @ + 1]

\* channel.bind, once Listen has returned
channel_bound(r0) ==
    With(r0, LAMBDA r :
    IF r.err # Nil THEN r ELSE [r EXCEPT !.f = SetVar(r.f, "port", r.lport)])

channel_bind(c, env) == channel_bound(Listen(c, env))

\* The plugin has returned: its result is kept as it was returned.
PluginReturned(r0) ==
    With(r0, LAMBDA r :
    [r EXCEPT !.ret = [called |-> TRUE, success |-> r.success,
                       err |-> r.err]])

\* fn(fsm, args...) with its (success, err) result in the context
CallPlugin(fn, c, env) ==
    LET c1 == [c EXCEPT !.inv = Append(@, fn), !.success = TRUE, !.err = Nil]
    IN PluginReturned(
        CASE env.cancelled -> Fail(c1, ErrCancelled)
          [] fn = <<"fte", "recv">> -> fte_recv(c1)
          [] fn = <<"io", "puts">> -> io_puts(c1)
          [] fn = <<"channel", "bind">> -> channel_bind(c1, env))

Compiles(regex) == regex # "("

Match(regex, buf) == buf # <<>> /\ Head(buf) = regex

----------------------------------------------------------------------------
(* The FTE cipher (package fte), for the regex ^(a|b|c)+$.  A plaintext is a
   string of bits; the blob that is ranked holds a version, the length of
   the plaintext, the nonce, the sealed plaintext padded to the capacity,
   and a MAC. *)

MaxPlain == 2       \* plaintexts have up to MaxPlain bits

Bits == {0, 1}
Plaintexts == UNION {[1..n -> Bits] : n \in 0..MaxPlain}
Nonces == Bits
Alphabet == <<"a", "b", "c">>
MsgLen == 5         \* covertexts have MsgLen letters
Version == 1

ErrAuthFailed == "AUTH_FAILED"
ErrMalformed == "MALFORMED"
ErrTooLong == "plaintext too long"

NoCipher == [open |-> FALSE, calls |-> 0, trips |-> 0]

RECURSIVE Pow(_, _)
Pow(b, n) == IF n = 0 THEN 1 ELSE b * Pow(b, n - 1)

RECURSIVE Sum(_)
Sum(q) == IF q = <<>> THEN 0 ELSE Head(q) + Sum(Tail(q))

\* The number of blobs for plaintexts of up to cap bits, and the number of
\* words of n letters that the ranker counts
BlobSpace(cap) == 2 * (cap + 1) * 2 * Pow(2, cap) * 2
NumWords(n) == Pow(Len(Alphabet), n)

Cipher_Capacity(n) ==
    CHOOSE cap \in 0..n :
        BlobSpace(cap) <= NumWords(n) /\ BlobSpace(cap + 1) > NumWords(n)

Keystream(nonce, i) == (nonce + i + 1) % 2

Seal(plaintext, nonce) ==
    [i \in 1..Len(plaintext) |-> (plaintext[i] + Keystream(nonce, i)) % 2]

Unseal(body, nonce) ==
    [i \in 1..Len(body) |-> (body[i] + 2 - Keystream(nonce, i)) % 2]

Mac(len, nonce, body) == (1 + len + nonce + Sum(body)) % 2

Pad(body, cap) == body \o [i \in 1..(cap - Len(body)) |-> 0]

\* Bits and words as integers, most significant first
RECURSIVE ToInt(_, _)
ToInt(q, acc) == IF q = <<>> THEN acc ELSE ToInt(Tail(q), 2 * acc + Head(q))

RECURSIVE ToBits(_, _)
ToBits(v, n) ==
    IF n = 0 THEN <<>> ELSE Append(ToBits(v \div 2, n - 1), v % 2)

RECURSIVE Unrank(_, _)
Unrank(rank, n) ==
    IF n = 0 THEN <<>>
    ELSE Append(Unrank(rank \div Len(Alphabet), n - 1),
                Alphabet[(rank % Len(Alphabet)) + 1])

Letter(ch) == CHOOSE k \in 0..(Len(Alphabet) - 1) : Alphabet[k + 1] = ch

RECURSIVE Rank(_, _)
Rank(word, acc) ==
    IF word = <<>> THEN acc
    ELSE Rank(Tail(word), Len(Alphabet) * acc + Letter(Head(word)))

Blob(len, nonce, body, cap) ==
    (((Version * (cap + 1) + len) * 2 + nonce) * Pow(2, cap)
        + ToInt(Pad(body, cap), 0)) * 2 + Mac(len, nonce, Pad(body, cap))

Cipher_Encrypt(plaintext, nonce, n) ==
    IF Len(plaintext) > Cipher_Capacity(n)
    THEN [ciphertext |-> <<>>, err |-> ErrTooLong]
    ELSE [ciphertext |-> Unrank(Blob(Len(plaintext), nonce,
                                     Seal(plaintext, nonce),
                                     Cipher_Capacity(n)), n),
          err |-> Nil]

\* The fields of the blob of rank r
BlobMac(r) == r % 2
BlobBody(r, cap) == ToBits((r \div 2) % Pow(2, cap), cap)
BlobNonce(r, cap) == (r \div (2 * Pow(2, cap))) % 2
BlobLen(r, cap) == (r \div (4 * Pow(2, cap))) % (cap + 1)
BlobVersion(r, cap) == r \div (4 * Pow(2, cap) * (cap + 1))

\* Decrypt that takes the whole padded body for the plaintext
Cipher_Decrypted_padded(r, cap, remainder) ==
    IF BlobVersion(r, cap) # Version
    THEN [plaintext |-> <<>>, remainder |-> <<>>, err |-> ErrMalformed]
    ELSE IF BlobMac(r) # Mac(BlobLen(r, cap), BlobNonce(r, cap),
                             BlobBody(r, cap))
    THEN [plaintext |-> <<>>, remainder |-> <<>>, err |-> ErrAuthFailed]
    ELSE [plaintext |-> Unseal(BlobBody(r, cap), BlobNonce(r, cap)),
          remainder |-> remainder, err |-> Nil]

\* Decrypt, once the covertext is ranked
Cipher_Decrypted(r, cap, remainder) ==
    IF BlobVersion(r, cap) # Version
    THEN [plaintext |-> <<>>, remainder |-> <<>>, err |-> ErrMalformed]
    ELSE IF BlobMac(r) # Mac(BlobLen(r, cap), BlobNonce(r, cap),
                             BlobBody(r, cap))
    THEN [plaintext |-> <<>>, remainder |-> <<>>, err |-> ErrAuthFailed]
    ELSE [plaintext |-> Unseal(SubSeq(BlobBody(r, cap), 1, BlobLen(r, cap)),
                               BlobNonce(r, cap)),
          remainder |-> remainder, err |-> Nil]

Cipher_Decrypt(ciphertext, n) ==
    IF Len(ciphertext) < n
    THEN [plaintext |-> <<>>, remainder |-> <<>>, err |-> ErrMalformed]
    ELSE Cipher_Decrypted(Rank(SubSeq(ciphertext, 1, n), 0),
                          Cipher_Capacity(n),
                          SubSeq(ciphertext, n + 1, Len(ciphertext)))

----------------------------------------------------------------------------
(* RankerCipher of plugins/tg: the data taken for the rank of a word of
   the DFA *)

MaxData == 2        \* data have up to MaxData bytes
ByteVals == {0, 1, 2, 255}
Data == UNION {[1..n -> ByteVals] : n \in 0..MaxData}

ErrOutOfRange == "OUT_OF_RANGE"
ErrNotInLanguage == "NOT_IN_LANGUAGE"

\* big.Int.SetBytes: the bytes read as a big-endian unsigned integer
RECURSIVE Int_SetBytes(_, _)
Int_SetBytes(data, acc) ==
    IF data = <<>> THEN acc ELSE Int_SetBytes(Tail(data), 256 * acc + Head(data))

\* big.Int.Bytes: the big-endian bytes of the integer, none for 0 and no
\* zero byte in front
RECURSIVE Int_Bytes(_)
Int_Bytes(r) ==
    IF r = 0 THEN <<>> ELSE Append(Int_Bytes(r \div 256), r % 256)

\* The words of n letters of the language
InLanguage(s, n) ==
    /\ Len(s) = n
    /\ \A i \in 1..Len(s) : \E k \in 1..Len(Alphabet) : s[i] = Alphabet[k]

DFA_Unrank(rank, n) ==
    IF rank >= NumWords(n) THEN [ret |-> <<>>, err |-> ErrOutOfRange]
    ELSE [ret |-> Unrank(rank, n), err |-> Nil]

DFA_Rank(s, n) ==
    IF ~InLanguage(s, n) THEN [rank |-> 0, err |-> ErrNotInLanguage]
    ELSE [rank |-> Rank(s, 0), err |-> Nil]

RankerCipher_Encrypt(data, n) ==
    [ciphertext |-> DFA_Unrank(Int_SetBytes(data, 0), n).ret,
     err |-> DFA_Unrank(Int_SetBytes(data, 0), n).err]

RankerCipher_Decrypt(ciphertext, n) ==
    IF DFA_Rank(ciphertext, n).err # Nil
    THEN [plaintext |-> <<>>, err |-> DFA_Rank(ciphertext, n).err]
    ELSE [plaintext |-> Int_Bytes(DFA_Rank(ciphertext, n).rank), err |-> Nil]

----------------------------------------------------------------------------
(* fsm: the engine with Execute, Reset, Listen and Clone *)

\* A plugin of this engine returns an error only: "not yet" is
\* ErrRetryTransition.
fsm_fnErr(r0) ==
    With(r0, LAMBDA r :
    IF r.err = Nil /\ ~r.success THEN Fail(r, ErrRetryTransition) ELSE r)

fsm_fn(fn, c, env) == fsm_fnErr(CallPlugin(fn, c, env))

\* evalActions that looks at no regex
fsm_evalActionsFrom_unguarded(c0, actions, i, env) ==
    With(c0, LAMBDA c :
    IF i > Len(actions) THEN Fail(c, ErrNoTransitions)
    ELSE IF FindPlugin(actions[i].Module, actions[i].Method) = <<>>
      THEN Fail(c, ErrPluginNotFound)
    ELSE fsm_fn(FindPlugin(actions[i].Module, actions[i].Method), c, env))

\* evalActions that goes on to the next action when it finds no plugin
RECURSIVE fsm_evalActionsFrom_skipmissing(_, _, _, _)
fsm_evalActionsFrom_skipmissing(c0, actions, i, env) ==
    With(c0, LAMBDA c :
    IF i > Len(actions) THEN Fail(c, ErrNoTransitions)
    ELSE IF actions[i].Regex # "" /\ ~Compiles(actions[i].Regex)
      THEN Fail(c, ErrRegex)
    ELSE IF actions[i].Regex # "" /\ c.buf = <<>>
      THEN Fail(c, Blocked)
    ELSE IF actions[i].Regex # "" /\ ~Match(actions[i].Regex, c.buf)
      THEN fsm_evalActionsFrom_skipmissing(c, actions, i + 1, env)
    ELSE IF FindPlugin(actions[i].Module, actions[i].Method) = <<>>
      THEN fsm_evalActionsFrom_skipmissing(c, actions, i + 1, env)
    ELSE fsm_fn(FindPlugin(actions[i].Module, actions[i].Method), c, env))

RECURSIVE fsm_evalActionsFrom(_, _, _, _)
fsm_evalActionsFrom(c0, actions, i, env) ==
    With(c0, LAMBDA c :
    IF i > Len(actions) THEN Fail(c, ErrNoTransitions)
    ELSE IF actions[i].Regex # "" /\ ~Compiles(actions[i].Regex)
      THEN Fail(c, ErrRegex)
    ELSE IF actions[i].Regex # "" /\ c.buf = <<>>
      THEN Fail(c, Blocked)               \* Peek waits for a byte
    ELSE IF actions[i].Regex # "" /\ ~Match(actions[i].Regex, c.buf)
      THEN fsm_evalActionsFrom(c, actions, i + 1, env)
    ELSE IF FindPlugin(actions[i].Module, actions[i].Method) = <<>>
      THEN Fail(c, ErrPluginNotFound)
    ELSE fsm_fn(FindPlugin(actions[i].Module, actions[i].Method), c, env))

fsm_evalActions(c, actions, env) ==
    IF Len(actions) = 0 THEN c ELSE fsm_evalActionsFrom(c, actions, 1, env)

\* NULL looked up like the name of an action block
NoActionBlock_lookup(transition) == FALSE

\* "If there's no action block then move to the next state."
NoActionBlock(transition) == transition.ActionBlock = "NULL"

\* The candidates of next: the choice among the transitions that are no
\* error transitions, then the error transitions; the assertion on the
\* choice.
fsm_candidates(c0) ==
    With(c0, LAMBDA c :
    LET all == FilterTransitionsBySource(Docs[c.f.doc].Transitions, c.f.state)
        ch == ChooseTransitions(FilterNonErrorTransitions(all), c.f.rand)
        c1 == [c EXCEPT !.f.rand = ch.rand, !.err = Nil, !.success = TRUE,
                        !.nextState = "",
                        !.cands = ch.ts \o FilterErrorTransitions(all),
                        !.tried = <<>>]
    IN IF Len(ch.ts) = 0 THEN Fail(c1, Panic) ELSE c1)

\* What next returns once the actions of the transition are through
fsm_attempted(r0, transition) ==
    With(r0, LAMBDA r :
    IF r.err # Nil THEN Fail(r, r.err)
    ELSE [r EXCEPT !.nextState = transition.Destination])

\* A turn of the loop of next that evaluates the whole block, whatever the
\* party of its actions
fsm_attempt_anyparty(c0, transition, eval, env) ==
    With(c0, LAMBDA c :
    IF NoActionBlock(transition)
      THEN [c EXCEPT !.nextState = transition.Destination]
    ELSE IF ~HasActionBlock(c.f.doc, transition.ActionBlock)
      THEN Fail(c, ErrBlockNotFound)
    ELSE IF eval
      THEN fsm_attempted(
               fsm_evalActions(c, ActionBlock(c.f.doc, transition.ActionBlock),
                               env),
               transition)
    ELSE fsm_attempted(c, transition))

\* One turn of the loop of next
fsm_attempt(c0, transition, eval, env) ==
    With(c0, LAMBDA c :
    IF NoActionBlock(transition)
      THEN [c EXCEPT !.nextState = transition.Destination]
    ELSE IF ~HasActionBlock(c.f.doc, transition.ActionBlock)
      THEN Fail(c, ErrBlockNotFound)
    ELSE IF eval
      THEN fsm_attempted(
               fsm_evalActions(c, FilterActionsByParty(
                   ActionBlock(c.f.doc, transition.ActionBlock), c.f.party),
                   env),
               transition)
    ELSE fsm_attempted(c, transition))

\* The loop of next returns in its first turn, whatever comes of it.
fsm_first(c0, eval, env) ==
    With(c0, LAMBDA c :
    IF c.err = Panic THEN c
    ELSE fsm_attempt([c EXCEPT !.tried = Append(@, c.cands[1])], c.cands[1],
                     eval, env))

fsm_next(c, eval, env) == fsm_first(fsm_candidates(c), eval, env)

\* The loop of init: steps i..stepN of the replay.
RECURSIVE fsm_replay(_, _, _)
RECURSIVE fsm_replayed(_, _, _)
fsm_replayed(r0, i, env) ==
    With(r0, LAMBDA r :
    IF r.err = Panic THEN r
    ELSE IF r.err # Nil THEN [r EXCEPT !.f.state = r.nextState]
    ELSE IF r.nextState = "" THEN Fail([r EXCEPT !.f.state = ""], Panic)
    ELSE fsm_replay([r EXCEPT !.f.state = r.nextState], i + 1, env))

fsm_replay(c0, i, env) ==
    With(c0, LAMBDA c :
    IF i > c.f.stepN THEN c
    ELSE fsm_replayed(fsm_next(c, FALSE, env), i, env))

fsm_init(c0, env) ==
    With(c0, LAMBDA c :
    IF c.f.rand.set \/ c.f.instanceID = 0 THEN c
    ELSE fsm_replay([c EXCEPT !.f.rand = NewRand(c.f.instanceID),
                              !.f.state = "start"], 1, env))

\* Next, once next has returned
fsm_stepped(n0) ==
    With(n0, LAMBDA n :
    IF n.err # Nil THEN n
    ELSE [n EXCEPT !.f.stepN = @ + 1, !.f.state = n.nextState])

\* Next, once init has returned: the fsm as init left it is kept in
\* .replayed
fsm_inited(i0, env) ==
    With(i0, LAMBDA i :
    IF i.err # Nil
    THEN [i EXCEPT !.replayed = i.f, !.side = Side(i.inv, i.buf, i.sent)]
    ELSE fsm_stepped(fsm_next([i EXCEPT !.replayed = i.f,
                                        !.side = Side(i.inv, i.buf, i.sent)],
                              TRUE, env)))

fsm_NextCall(c, env) == fsm_inited(fsm_init(c, env), env)

\* Reset that keeps the close functions registered
fsm_Reset_keep(c) ==
    [c EXCEPT !.f.state = "start", !.f.vars = EmptyVars,
              !.log = @ \o c.f.closeFuncs]

fsm_Reset(c) ==
    [c EXCEPT !.f.state = "start", !.f.vars = EmptyVars,
              !.log = @ \o c.f.closeFuncs, !.f.closeFuncs = <<>>]

\* Clone that leaves the variable map of the clone empty
fsm_Clone_novars(f, doc, id) ==
    initFirstSender(
        [state |-> "start", vars |-> EmptyVars, doc |-> doc,
         party |-> f.party, fteCache |-> f.fteCache, conn |-> NoConn,
         streamSet |-> f.streamSet, listeners |-> f.listeners,
         closeFuncs |-> <<>>, stepN |-> 0, rand |-> NoRand,
         instanceID |-> 0], id)

fsm_Clone(f, doc, id) ==
    LET other == initFirstSender(
            [state |-> "start", vars |-> EmptyVars, doc |-> doc,
             party |-> f.party, fteCache |-> f.fteCache, conn |-> NoConn,
             streamSet |-> f.streamSet, listeners |-> f.listeners,
             closeFuncs |-> <<>>, stepN |-> 0, rand |-> NoRand,
             instanceID |-> 0], id)
    IN [other EXCEPT !.vars = [k \in DOMAIN f.vars |-> f.vars[k]]]

ensureClientConn(c, env) ==
    IF ~env.net THEN Fail(c, ErrNet)
    ELSE LET conn == Resource(c.nres + 1, "conn", Port(c.f))
         IN [c EXCEPT !.nres = @ + 1, !.f.conn = conn.id,
                      !.f.closeFuncs = Append(@, conn)]

ensureServerConn(c, env) ==
    LET m == c.lm[c.f.listeners]
    IN IF Port(c.f) \notin DOMAIN m THEN Fail(c, ErrNoListeners)
       ELSE IF IsClosed(c.log, m[Port(c.f)]) \/ ~env.net THEN Fail(c, ErrNet)
       ELSE LET conn == Resource(c.nres + 1, "conn", Port(c.f))
            IN [c EXCEPT !.nres = @ + 1, !.f.conn = conn.id,
                         !.f.closeFuncs = Append(@, conn)]

ensureConn(c, env) ==
    IF c.f.conn # NoConn THEN c
    ELSE IF c.f.party = PartyClient THEN ensureClientConn(c, env)
    ELSE ensureServerConn(c, env)

----------------------------------------------------------------------------
(* FSM: the engine whose plugins return (success, err) *)

FSM_NewFSM(doc, party, id) ==
    initFirstSender(
        [state |-> "start", vars |-> EmptyVars, doc |-> doc, party |-> party,
         fteCache |-> 0, conn |-> NoConn, streamSet |-> 0, listeners |-> 0,
         closeFuncs |-> <<>>, stepN |-> 0, rand |-> NoRand,
         instanceID |-> 0], id)

FSM_evalAction(c, action, env) ==
    IF FindPlugin(action.Module, action.Method) = <<>>
      THEN Fail(c, ErrPluginNotFound)
    ELSE CallPlugin(FindPlugin(action.Module, action.Method), c, env)

RECURSIVE FSM_evalActionsFrom(_, _, _, _)
RECURSIVE FSM_evaluated(_, _, _, _)
\* One turn of the loop of evalActions, once evalAction has returned
FSM_evaluated(r, actions, i, env) ==
    IF r.err # Nil THEN Fail(r, r.err)
    ELSE IF r.success THEN r
    ELSE FSM_evalActionsFrom(r, actions, i + 1, env)

FSM_evalActionsFrom(c, actions, i, env) ==
    IF i > Len(actions) THEN [c EXCEPT !.success = FALSE, !.err = Nil]
    ELSE IF actions[i].Regex # "" /\ ~Compiles(actions[i].Regex)
      THEN Fail(c, ErrRegex)
    ELSE IF actions[i].Regex # "" /\ ~Match(actions[i].Regex, c.buf)
      THEN FSM_evalActionsFrom(c, actions, i + 1, env)
    ELSE FSM_evaluated(FSM_evalAction(c, actions[i], env), actions, i, env)

FSM_evalActions(c, actions, env) ==
    IF Len(actions) = 0 THEN [c EXCEPT !.success = TRUE, !.err = Nil]
    ELSE FSM_evalActionsFrom(c, actions, 1, env)

\* The loop of next over the candidates i.. of transitions
RECURSIVE FSM_attempt(_, _, _, _)
RECURSIVE FSM_attempted(_, _, _, _)
\* One turn of it, once evalActions has returned
FSM_attempted(r, transitions, i, env) ==
    IF r.err # Nil THEN Fail(r, r.err)
    ELSE IF r.success
      THEN [r EXCEPT !.nextState = transitions[i].Destination]
    ELSE FSM_attempt(r, transitions, i + 1, env)

FSM_attempt(c, transitions, i, env) ==
    IF i > Len(transitions) THEN [c EXCEPT !.nextState = "", !.err = Nil]
    ELSE IF NoActionBlock(transitions[i])
      THEN [c EXCEPT !.tried = Append(@, transitions[i]),
                     !.nextState = transitions[i].Destination, !.err = Nil]
    ELSE IF ~HasActionBlock(c.f.doc, transitions[i].ActionBlock)
      THEN Fail([c EXCEPT !.tried = Append(@, transitions[i])],
                ErrBlockNotFound)
    ELSE FSM_attempted(
             FSM_evalActions([c EXCEPT !.tried = Append(@, transitions[i])],
                 FilterActionsByParty(
                     ActionBlock(c.f.doc, transitions[i].ActionBlock),
                     c.f.party),
                 env),
             transitions, i, env)

FSM_loop(c, env) ==
    IF c.err = Panic THEN c ELSE FSM_attempt(c, c.cands, 1, env)

FSM_candidates(c) == fsm_candidates(c)

FSM_next(c, env) == FSM_loop(FSM_candidates(c), env)

RECURSIVE FSM_replay(_, _, _)
RECURSIVE FSM_replayed(_, _, _)
FSM_replayed(r, i, env) ==
    IF r.err = Panic THEN r
    ELSE IF r.err # Nil THEN [r EXCEPT !.f.state = r.nextState]
    ELSE IF r.nextState = "" THEN Fail([r EXCEPT !.f.state = ""], Panic)
    ELSE FSM_replay([r EXCEPT !.f.state = r.nextState], i + 1, env)

FSM_replay(c, i, env) ==
    IF i > c.f.stepN THEN c
    ELSE FSM_replayed(FSM_next(c, env), i, env)

FSM_init(c, env) ==
    IF c.f.rand.set \/ c.f.instanceID = 0 THEN c
    ELSE FSM_replay([c EXCEPT !.f.rand = NewRand(c.f.instanceID),
                              !.f.state = "start"], 1, env)

FSM_SetConn(f, conn) == [f EXCEPT !.conn = conn]

\* Next, once next has returned
FSM_stepped(n) ==
    IF n.err # Nil THEN n
    ELSE IF n.nextState = "" THEN Fail(n, ErrNoTransition)
    ELSE [n EXCEPT !.f.stepN = @ + 1, !.f.state = n.nextState]

\* Next, once init has returned
FSM_inited(i, env) ==
    IF i.err # Nil
    THEN [i EXCEPT !.replayed = i.f, !.side = Side(i.inv, i.buf, i.sent)]
    ELSE FSM_stepped(FSM_next([i EXCEPT !.replayed = i.f,
                                        !.side = Side(i.inv, i.buf, i.sent)],
                              env))

\* Next, past the dialling of the client
FSM_connected(c, env) ==
    IF c.f.conn = NoConn THEN Fail(c, ErrNoConn)
    ELSE FSM_inited(FSM_init(c, env), env)

FSM_NextCall(c, env) ==
    IF c.f.party = PartyClient /\ c.f.conn = NoConn
    THEN IF env.net
         THEN FSM_connected([c EXCEPT !.f = FSM_SetConn(c.f, CallerConn)], env)
         ELSE Fail(c, ErrNet)
    ELSE FSM_connected(c, env)

----------------------------------------------------------------------------
(* State machine *)

AllSlots == Slots \cup {CloneSlot}

Envs == [port : {0} \cup Ports, net : BOOLEAN, cancelled : {FALSE}]

\* What the system answers to a plugin that listens (the port it gives, 0
\* when it refuses), and to Execute when it dials or accepts.
PortEnvs == {e \in Envs : e.net}
NetEnvs == {e \in Envs : e.port = 0}

\* The same with a context that may be cancelled when a plugin is called
CancelEnvs == [port : {0}, net : {TRUE}, cancelled : BOOLEAN]

NoReplay == [did |-> FALSE, state |-> "", stepN |-> 0, rand |-> NoRand,
             vars |-> EmptyVars, side |-> Side(<<>>, <<>>, 0)]

NoCall == [op |-> "none", x |-> 0, err |-> Nil, nexterr |-> Nil,
           cands |-> <<>>, tried |-> <<>>, inv |-> <<>>, replay |-> NoReplay,
           ret |-> NoRet]

\* The fsm as init left it, when init replayed.
Replay(x, r) ==
    IF ~fsms[x].rand.set /\ r.replayed.rand.set
    THEN [did |-> TRUE, state |-> r.replayed.state,
          stepN |-> r.replayed.stepN, rand |-> r.replayed.rand,
          vars |-> r.replayed.vars, side |-> r.side]
    ELSE NoReplay

Call(op, x, r, err, nexterr) ==
    [op |-> op, x |-> x, err |-> err, nexterr |-> nexterr,
     cands |-> r.cands, tried |-> r.tried, inv |-> r.inv,
     replay |-> Replay(x, r), ret |-> r.ret]

\* What a call leaves behind.
Commit(x, r) ==
    /\ fsms' = [fsms EXCEPT ![x] = r.f]
    /\ inbuf' = [inbuf EXCEPT ![x] = r.buf]
    /\ sent' = [sent EXCEPT ![x] = r.sent]
    /\ lmaps' = r.lm
    /\ nres' = r.nres
    /\ closeLog' = r.log
    /\ crashed' = [crashed EXCEPT ![x] = (r.err = Panic)]

\* A call as its fsm's history keeps it: the input it saw (the bytes
\* buffered, the port the system gave, the argument) and what came of it.
\* It is kept in full where a mock needs it to drive a second fsm, and
\* elsewhere as the name of the call and whether it fell back on an error
\* transition.
Seen(op, x, arg, r) ==
    IF mock
    THEN [op |-> op, buf |-> inbuf[x], port |-> r.lport, arg |-> arg,
          state |-> r.f.state, stepN |-> r.f.stepN, err |-> r.err]
    ELSE [op |-> op,
          fell |-> r.err = Nil /\ r.tried # <<>> /\ r.tried[Len(r.tried)].IsError]

SameInput(h1, h2) ==
    /\ h1.op = h2.op /\ h1.buf = h2.buf
    /\ h1.port = h2.port /\ h1.arg = h2.arg

Callable(x) == x \in DOMAIN fsms /\ ~crashed[x]

Setup(S, D) ==
    \E d \in D, p \in [S -> Parties], id \in [S -> InstanceIDs] :
        /\ fsms = [x \in S |-> NewFSM(d, p[x], CallerConn, 0, x, x, id[x])]
        /\ inbuf = [x \in AllSlots |-> <<>>]
        /\ sent = [x \in AllSlots |-> 0]
        /\ lmaps = [x \in Slots |-> [q \in {} |-> Resource(0, "listener", 0)]]
        /\ nres = 0
        /\ closeLog = <<>>
        /\ pc = [x \in AllSlots |-> "idle"]
        /\ crashed = [x \in AllSlots |-> FALSE]
        /\ hist = [x \in AllSlots |-> <<>>]
        /\ last = NoCall
        /\ mock \in BOOLEAN
        /\ plugins = [k \in Registered |-> k]
        /\ regLog = <<>>
        /\ cipher = NoCipher

\* Bytes of the peer arrive on the connection.
Arrive(x, b) ==
    /\ x \in DOMAIN fsms
    /\ Len(inbuf[x]) < MaxBuf
    /\ inbuf' = [inbuf EXCEPT ![x] = Append(@, b)]
    /\ UNCHANGED <<fsms, sent, lmaps, nres, closeLog, pc, crashed, hist, mock,
                   plugins, regLog, cipher, last>>

SetInstanceID(x, id) ==
    /\ Callable(x)
    /\ Len(hist[x]) < MaxCalls
    /\ fsms[x].instanceID = 0
    /\ fsms' = [fsms EXCEPT ![x].instanceID = id]
    /\ LET r == [Ctx(x) EXCEPT !.f.instanceID = id]
       IN /\ hist' = [hist EXCEPT ![x] = Append(@, Seen("SetInstanceID", x, id, r))]
          /\ last' = Call("SetInstanceID", x, r, Nil, Nil)
    /\ UNCHANGED <<inbuf, sent, lmaps, nres, closeLog, pc, crashed, mock,
                   plugins, regLog, cipher>>

\* Next has returned r (a Next that waits for bytes has not returned).
Returned(x, r) ==
    /\ r.err # Blocked
    /\ r.nres <= MaxRes
    /\ Commit(x, r)
    /\ hist' = [hist EXCEPT ![x] = Append(@, Seen("Next", x, 0, r))]

fsm_NextReturns(x, r) ==
    /\ Returned(x, r)
    /\ last' = Call("Next", x, r, r.err, r.err)

fsm_Next(x) ==
    /\ Callable(x) /\ pc[x] = "idle"
    /\ Len(hist[x]) < MaxCalls
    /\ \E env \in PortEnvs : fsm_NextReturns(x, fsm_NextCall(Ctx(x), env))
    /\ UNCHANGED <<pc, mock, plugins, regLog, cipher>>

fsm_ResetCall(x) ==
    /\ Callable(x) /\ pc[x] = "idle"
    /\ LET r == fsm_Reset(Ctx(x))
       IN /\ Commit(x, r)
          /\ last' = Call("Reset", x, r, Nil, Nil)
    /\ UNCHANGED <<pc, hist, mock, plugins, regLog, cipher>>

fsm_ListenReturns(x, r) ==
    /\ r.nres <= MaxRes
    /\ Commit(x, r)
    /\ last' = Call("Listen", x, r, r.err, Nil)

fsm_Listen(x) ==
    /\ Callable(x) /\ pc[x] = "idle"
    /\ \E env \in PortEnvs : fsm_ListenReturns(x, Listen(Ctx(x), env))
    /\ UNCHANGED <<pc, hist, mock, plugins, regLog, cipher>>

fsm_CloneCall(x, doc) ==
    /\ Callable(x)
    /\ CloneSlot \notin DOMAIN fsms
    /\ \E id \in InstanceIDs :
        fsms' = [y \in DOMAIN fsms \cup {CloneSlot} |->
                    IF y = CloneSlot THEN fsm_Clone(fsms[x], doc, id)
                    ELSE fsms[y]]
    /\ last' = Call("Clone", x, Ctx(x), Nil, Nil)
    /\ UNCHANGED <<inbuf, sent, lmaps, nres, closeLog, pc, crashed, hist, mock,
                   plugins, regLog, cipher>>

fsm_ExecuteEnsured(x, r) ==
    /\ r.nres <= MaxRes
    /\ Commit(x, r)
    /\ pc' = [pc EXCEPT ![x] = IF r.err = Nil THEN "loop" ELSE "idle"]
    /\ last' = Call("Execute", x, r,
                    IF r.err = Nil THEN "running" ELSE r.err, Nil)

\* Execute, up to its loop
fsm_Execute(x) ==
    /\ Callable(x) /\ pc[x] = "idle"
    /\ \E env \in NetEnvs : fsm_ExecuteEnsured(x, ensureConn(Ctx(x), env))
    /\ UNCHANGED <<hist, mock, plugins, regLog, cipher>>

\* Execute that returns ErrRetryTransition like any other error
fsm_ExecuteContinue_noretry(err) == err = Nil

\* Execute goes on after a Next that succeeded or asked to be retried.
fsm_ExecuteContinue(err) == err = ErrRetryTransition \/ err = Nil

fsm_ExecuteNextReturns(x, r) ==
    /\ Returned(x, r)
    /\ pc' = [pc EXCEPT ![x] = IF fsm_ExecuteContinue(r.err)
                               THEN "loop" ELSE "idle"]
    /\ last' = Call("Execute", x, r,
                    IF fsm_ExecuteContinue(r.err) THEN "running" ELSE r.err,
                    r.err)

\* One turn of the loop of Execute: the test of Dead, the call of Next
fsm_ExecuteLoopIn(x, E) ==
    /\ Callable(x) /\ pc[x] = "loop"
    /\ UNCHANGED <<mock, plugins, regLog, cipher>>
    /\ IF Dead(fsms[x])
       THEN /\ pc' = [pc EXCEPT ![x] = "idle"]
            /\ last' = Call("Execute", x, Ctx(x), Nil, Nil)
            /\ UNCHANGED <<fsms, inbuf, sent, lmaps, nres, closeLog, crashed,
                           hist>>
       ELSE /\ Len(hist[x]) < MaxCalls
            /\ \E env \in E : \E r \in {fsm_NextCall(Ctx(x), env)} :
                    fsm_ExecuteNextReturns(x, r)

fsm_ExecuteLoop(x) == fsm_ExecuteLoopIn(x, PortEnvs)

Init == Setup({1}, {1, 2}) /\ ~mock

Next ==
    \/ \E b \in Bytes : Arrive(1, b)
    \/ \E id \in InstanceIDs : SetInstanceID(1, id)
    \/ fsm_Next(1)
    \/ fsm_ResetCall(1)
    \/ fsm_Execute(1)
    \/ fsm_ExecuteLoop(1)

Spec == Init /\ [][Next]_vars

(* An fsm of a document that binds a channel, and the fsm it spawns for a
   document of that channel.  The parent is left alone once it has spawned;
   nothing arrives for the spawned fsm while it is watched. *)

NoClone == CloneSlot \notin DOMAIN fsms

InitClone == Setup({1}, {2}) /\ ~mock

NextClone ==
    \/ NoClone /\ fsm_Next(1)
    \/ NoClone /\ fsm_Listen(1)
    \/ NoClone /\ fsm_ResetCall(1)
    \/ \E d \in {1, 2} : fsm_CloneCall(1, d)
    \/ fsm_Execute(CloneSlot)
    \/ fsm_ExecuteLoop(CloneSlot)
    \/ fsm_ResetCall(CloneSlot)

SpecClone == InitClone /\ [][NextClone]_vars

(* FSM: a party and its peer *)

\* The instance ID of the first sender reaches its peer in the first cell.
Learn(x, y) == SetInstanceID(x, fsms[y].instanceID)

FSM_Next(x) ==
    /\ Callable(x)
    /\ Len(hist[x]) < MaxCalls
    /\ \E env \in Envs : fsm_NextReturns(x, FSM_NextCall(Ctx(x), env))
    /\ UNCHANGED <<pc, mock, plugins, regLog, cipher>>

FSM_SetConnCall(x) ==
    /\ Callable(x)
    /\ fsms[x].conn = NoConn
    /\ fsms' = [fsms EXCEPT ![x] = FSM_SetConn(@, CallerConn)]
    /\ last' = Call("SetConn", x, Ctx(x), Nil, Nil)
    /\ UNCHANGED <<inbuf, sent, lmaps, nres, closeLog, pc, crashed, hist, mock,
                   plugins, regLog, cipher>>

\* Slot 2 holds the first sender, slot 1 its peer.
SetupFSM(D) ==
    \E d \in D, p \in [Slots -> Parties], id \in [Slots -> InstanceIDs] :
        /\ p[2] = FirstSender(d) /\ p[1] # p[2]
        /\ fsms = [x \in Slots |-> FSM_NewFSM(d, p[x], id[x])]
        /\ inbuf = [x \in AllSlots |-> <<>>]
        /\ sent = [x \in AllSlots |-> 0]
        /\ lmaps = [x \in {0} |-> [q \in {} |-> Resource(0, "listener", 0)]]
        /\ nres = 0
        /\ closeLog = <<>>
        /\ pc = [x \in AllSlots |-> "idle"]
        /\ crashed = [x \in AllSlots |-> FALSE]
        /\ hist = [x \in AllSlots |-> <<>>]
        /\ last = NoCall
        /\ mock = FALSE
        /\ plugins = [k \in Registered |-> k]
        /\ regLog = <<>>
        /\ cipher = NoCipher

InitFSM == SetupFSM({1, 3})

NextFSM ==
    \/ \E x \in Slots, b \in Bytes : Arrive(x, b)
    \/ Learn(1, 2)
    \/ \E x \in Slots : FSM_SetConnCall(x)
    \/ \E x \in Slots : FSM_Next(x)

SpecFSM == InitFSM /\ [][NextFSM]_vars

(* Two fsms of one document, side by side: the second is driven by a mock
   that hands it, call by call, the input the first one saw. *)

InitPair ==
    /\ Setup(Slots, {1, 2}) /\ mock
    /\ fsms[1].party = fsms[2].party
    /\ fsms[1].instanceID = fsms[2].instanceID

Mocked(x, y) ==
    /\ Len(hist[y]) < Len(hist[x])
    /\ Len(hist'[y]) = Len(hist[y]) + 1
    /\ SameInput(hist'[y][Len(hist'[y])], hist[x][Len(hist'[y])])

MockArrive(x, y, b) ==
    /\ Len(hist[y]) < Len(hist[x])
    /\ hist[x][Len(hist[y]) + 1].buf = Append(inbuf[y], b)
    /\ Arrive(y, b)

\* The mock has handed the second fsm every call the first has made.
InStep == Len(hist[2]) = Len(hist[1])

NextPair ==
    \/ \E b \in Bytes : InStep /\ Arrive(1, b)
    \/ \E id \in InstanceIDs : InStep /\ SetInstanceID(1, id)
    \/ InStep /\ fsm_Next(1)
    \/ \E b \in Bytes : MockArrive(1, 2, b)
    \/ \E id \in InstanceIDs : SetInstanceID(2, id) /\ Mocked(1, 2)
    \/ fsm_Next(2) /\ Mocked(1, 2)

SpecPair == InitPair /\ [][NextPair]_vars

(* Execute of an fsm that was built without a connection, under a context
   that may be cancelled while a plugin runs. *)

InitCancel ==
    \E d \in {1, 3}, p \in Parties, id \in InstanceIDs :
        /\ fsms = [x \in {1} |-> NewFSM(d, p, NoConn, 0, 1, 1, id)]
        /\ inbuf = [x \in AllSlots |-> <<>>]
        /\ sent = [x \in AllSlots |-> 0]
        /\ lmaps = [x \in Slots |->
                        [q \in Ports |-> Resource(0, "listener", q)]]
        /\ nres = 0
        /\ closeLog = <<>>
        /\ pc = [x \in AllSlots |-> "idle"]
        /\ crashed = [x \in AllSlots |-> FALSE]
        /\ hist = [x \in AllSlots |-> <<>>]
        /\ last = NoCall
        /\ mock = FALSE
        /\ plugins = [k \in Registered |-> k]
        /\ regLog = <<>>
        /\ cipher = NoCipher

NextCancel ==
    \/ \E b \in Bytes : Arrive(1, b)
    \/ fsm_Execute(1)
    \/ fsm_ExecuteLoopIn(1, CancelEnvs)

SpecCancel == InitCancel /\ [][NextCancel]_vars

(* Execute under the conditions in which it is expected to end: the system
   refuses nothing, no corrupt covertext arrives, the covertext a receive
   waits for does arrive, and no plugin says "not yet" twice in a row. *)

LiveEnvs == {e \in Envs : e.net /\ e.port # 0}

fsm_ExecuteTurn(x) ==
    /\ fsm_ExecuteLoopIn(x, LiveEnvs)
    /\ ~(last.nexterr = ErrRetryTransition
            /\ last'.nexterr = ErrRetryTransition)

InitLive == Setup({1}, {1, 2, 3}) /\ ~mock

NextLive ==
    \/ Arrive(1, "g")
    \/ fsm_Execute(1)
    \/ fsm_ExecuteTurn(1)

SpecLive ==
    /\ InitLive /\ [][NextLive]_vars
    /\ WF_vars(Arrive(1, "g"))
    /\ WF_vars(fsm_ExecuteTurn(1))

(* An fsm of the document with guards and with a plugin that is not
   registered: calls of Next, and Execute. *)

InitActions == Setup({1}, {4}) /\ ~mock

NextActions ==
    \/ \E b \in Bytes : Arrive(1, b)
    \/ fsm_Next(1)
    \/ fsm_Execute(1)
    \/ fsm_ExecuteLoop(1)

SpecActions == InitActions /\ [][NextActions]_vars

(* The same document for an FSM and its peer *)

InitActionsFSM == SetupFSM({4})

SpecActionsFSM == InitActionsFSM /\ [][NextFSM]_vars

(* The plugin registry on its own: packages register their plugins, in any
   order and under any key, and look plugins up; a panic of RegisterPlugin
   is recovered by its caller. *)

Modules == {"io", "fte"}
Methods == {"puts", "recv"}
PluginFuncs == Registered

NoFSMs == [x \in {} |-> Nil]

RegisterPluginReturns(key, fn, r) ==
    /\ plugins' = r.plugins
    /\ regLog' = Append(regLog, [key |-> key, fn |-> fn])
    /\ last' = [op |-> "RegisterPlugin", x |-> 0, key |-> key, fn |-> fn,
                err |-> r.err]

RegisterPluginCall(module, method, fn) ==
    /\ Len(regLog) < MaxCalls
    /\ RegisterPluginReturns(pluginKey(module, method), fn,
                             RegisterPlugin(plugins, module, method, fn))
    /\ UNCHANGED <<fsms, inbuf, sent, lmaps, nres, closeLog, pc, crashed, hist,
                   mock, cipher>>

FindPluginCall(module, method) ==
    /\ last' = [op |-> "FindPlugin", x |-> 0,
                key |-> pluginKey(module, method),
                fn |-> FindPlugin(module, method), err |-> Nil]
    /\ UNCHANGED <<fsms, inbuf, sent, lmaps, nres, closeLog, pc, crashed, hist,
                   mock, plugins, regLog, cipher>>

InitRegistry ==
    /\ fsms = NoFSMs
    /\ inbuf = [x \in AllSlots |-> <<>>]
    /\ sent = [x \in AllSlots |-> 0]
    /\ lmaps = [x \in {0} |-> [q \in {} |-> Resource(0, "listener", 0)]]
    /\ nres = 0
    /\ closeLog = <<>>
    /\ pc = [x \in AllSlots |-> "idle"]
    /\ crashed = [x \in AllSlots |-> FALSE]
    /\ hist = [x \in AllSlots |-> <<>>]
    /\ last = NoCall
    /\ mock = FALSE
    /\ plugins = [k \in {} |-> <<>>]
    /\ regLog = <<>>
    /\ cipher = NoCipher

NextRegistry ==
    \/ \E module \in Modules, method \in Methods, fn \in PluginFuncs :
            RegisterPluginCall(module, method, fn)
    \/ \E module \in Modules, method \in Methods :
            FindPluginCall(module, method)

SpecRegistry == InitRegistry /\ [][NextRegistry]_vars

(* One cipher, as the test of the cipher uses it: messages are encrypted
   and what was encrypted is decrypted, as it is, followed by a further
   letter, or with a letter changed on the way; in the end the cipher is
   closed, and closed once more by the deferred call. *)

Rest == {<<>>, <<"a">>}

\* The covertext with its last letter changed
Damaged(word) ==
    [word EXCEPT ![Len(word)] = IF @ = "a" THEN "b" ELSE "a"]

EncryptCall(plaintext, nonce) ==
    /\ cipher.open /\ cipher.calls < MaxCalls
    /\ cipher' = [cipher EXCEPT !.calls = @ + 1]
    /\ last' = [op |-> "Encrypt", x |-> 0, plaintext |-> plaintext,
                ciphertext |->
                    Cipher_Encrypt(plaintext, nonce, MsgLen).ciphertext,
                err |-> Cipher_Encrypt(plaintext, nonce, MsgLen).err]
    /\ UNCHANGED <<fsms, inbuf, sent, lmaps, nres, closeLog, pc, crashed, hist,
                   mock, plugins, regLog>>

DecryptReturns(input, r) ==
    /\ cipher' = [cipher EXCEPT
                    !.trips = IF input = last.ciphertext /\ r.err = Nil
                              THEN @ + 1 ELSE @]
    /\ last' = [op |-> "Decrypt", x |-> 0, input |-> input,
                plaintext |-> r.plaintext, remainder |-> r.remainder,
                err |-> r.err]

DecryptCall(rest, damaged) ==
    /\ cipher.open /\ last.op = "Encrypt" /\ last.err = Nil
    /\ DecryptReturns(
            (IF damaged THEN Damaged(last.ciphertext) ELSE last.ciphertext)
                \o rest,
            Cipher_Decrypt(
                (IF damaged THEN Damaged(last.ciphertext)
                 ELSE last.ciphertext) \o rest, MsgLen))
    /\ UNCHANGED <<fsms, inbuf, sent, lmaps, nres, closeLog, pc, crashed, hist,
                   mock, plugins, regLog>>

\* Close of the open cipher returns nil; the test does not look at what
\* the deferred Close of the closed cipher returns.
CloseCall(err) ==
    /\ last.op # "Close" \/ cipher.open
    /\ cipher.open => err = Nil
    /\ cipher' = [cipher EXCEPT !.open = FALSE]
    /\ last' = [op |-> "Close", x |-> 0, deferred |-> ~cipher.open,
                err |-> err]
    /\ UNCHANGED <<fsms, inbuf, sent, lmaps, nres, closeLog, pc, crashed, hist,
                   mock, plugins, regLog>>

InitCipher ==
    /\ fsms = NoFSMs
    /\ inbuf = [x \in AllSlots |-> <<>>]
    /\ sent = [x \in AllSlots |-> 0]
    /\ lmaps = [x \in {0} |-> [q \in {} |-> Resource(0, "listener", 0)]]
    /\ nres = 0
    /\ closeLog = <<>>
    /\ pc = [x \in AllSlots |-> "idle"]
    /\ crashed = [x \in AllSlots |-> FALSE]
    /\ hist = [x \in AllSlots |-> <<>>]
    /\ last = NoCall
    /\ mock = FALSE
    /\ plugins = [k \in Registered |-> k]
    /\ regLog = <<>>
    /\ cipher = [NoCipher EXCEPT !.open = TRUE]

NextCipher ==
    \/ \E plaintext \in Plaintexts, nonce \in Nonces :
            EncryptCall(plaintext, nonce)
    \/ \E rest \in Rest, damaged \in BOOLEAN : DecryptCall(rest, damaged)
    \/ \E err \in {Nil, ErrNet} : CloseCall(err)

SpecCipher == InitCipher /\ [][NextCipher]_vars

(* A RankerCipher on its own: calls of Encrypt, and of Decrypt on what
   Encrypt returned, whole or cut short. *)

RankerEncryptCall(data) ==
    /\ cipher.calls < MaxCalls
    /\ cipher' = [cipher EXCEPT !.calls = @ + 1]
    /\ last' = [op |-> "Encrypt", x |-> 0, data |-> data,
                ciphertext |-> RankerCipher_Encrypt(data, MsgLen).ciphertext,
                err |-> RankerCipher_Encrypt(data, MsgLen).err]
    /\ UNCHANGED <<fsms, inbuf, sent, lmaps, nres, closeLog, pc, crashed, hist,
                   mock, plugins, regLog>>

RankerDecryptReturns(input, r) ==
    /\ cipher' = [cipher EXCEPT !.trips = IF r.err = Nil THEN @ + 1 ELSE @]
    /\ last' = [op |-> "Decrypt", x |-> 0, input |-> input,
                plaintext |-> r.plaintext, err |-> r.err]

RankerDecryptCall(cut) ==
    /\ last.op = "Encrypt" /\ last.err = Nil
    /\ RankerDecryptReturns(
            SubSeq(last.ciphertext, 1, Len(last.ciphertext) - cut),
            RankerCipher_Decrypt(
                SubSeq(last.ciphertext, 1, Len(last.ciphertext) - cut),
                MsgLen))
    /\ UNCHANGED <<fsms, inbuf, sent, lmaps, nres, closeLog, pc, crashed, hist,
                   mock, plugins, regLog>>

InitRanker ==
    /\ fsms = NoFSMs
    /\ inbuf = [x \in AllSlots |-> <<>>]
    /\ sent = [x \in AllSlots |-> 0]
    /\ lmaps = [x \in {0} |-> [q \in {} |-> Resource(0, "listener", 0)]]
    /\ nres = 0
    /\ closeLog = <<>>
    /\ pc = [x \in AllSlots |-> "idle"]
    /\ crashed = [x \in AllSlots |-> FALSE]
    /\ hist = [x \in AllSlots |-> <<>>]
    /\ last = NoCall
    /\ mock = FALSE
    /\ plugins = [k \in Registered |-> k]
    /\ regLog = <<>>
    /\ cipher = NoCipher

NextRanker ==
    \/ \E data \in Data : RankerEncryptCall(data)
    \/ \E cut \in {0, 1} : RankerDecryptCall(cut)

SpecRanker == InitRanker /\ [][NextRanker]_vars

----------------------------------------------------------------------------
(* Properties *)

\* The step is a call of op on fsm x (and not bytes arriving after one).
Did(op, x) ==
    /\ last'.op = op /\ last'.x = x
    /\ x \in DOMAIN fsms
    /\ <<fsms, closeLog, hist, pc, last>>' # <<fsms, closeLog, hist, pc, last>>

Last(s) == s[Len(s)]

Reverse(s) == [i \in 1..Len(s) |-> s[Len(s) + 1 - i]]

Count(s, e) == Cardinality({i \in 1..Len(s) : s[i] = e})

\* C1: Replay convergence.  When the fsm in slot 1 took k steps with its
\* PRNG unset, learned the instance ID and replayed in init, it is left in
\* the state, at the step counter and at the PRNG position of the peer of
\* the same document that was seeded with that ID from the start and has made
\* k calls of Next, all successful (and none by way of an error transition).
C1_ReplayConvergence ==
    ( /\ last.op = "Next" /\ last.x = 1 /\ last.replay.did
      /\ fsms[2].rand.set
      /\ fsms[2].doc = fsms[1].doc
      /\ fsms[2].instanceID = fsms[1].instanceID
      /\ fsms[2].stepN = last.replay.stepN
      /\ fsms[2].rand.n = fsms[2].stepN
      /\ \A j \in 1..Len(hist[2]) : ~hist[2][j].fell )
    => /\ last.replay.state = fsms[2].state
       /\ last.replay.rand = fsms[2].rand

C3_ExecuteLoop ==
    [][\A x \in DOMAIN fsms :
        (pc[x] = "loop" /\ Did("Execute", x)) =>
            /\ ~Dead(fsms[x]) => Len(hist'[x]) = Len(hist[x]) + 1
            /\ (~Dead(fsms[x]) /\ last'.nexterr \in {Nil, ErrRetryTransition})
                    => pc'[x] = "loop" /\ last'.err = "running"
            /\ (~Dead(fsms[x]) /\ last'.nexterr \notin {Nil, ErrRetryTransition})
                    => pc'[x] = "idle" /\ last'.err = last'.nexterr
            /\ (pc'[x] = "idle" /\ last'.err = Nil)
                    => Dead(fsms[x]) /\ Dead(fsms'[x])]_vars

\* Execute has returned without error, in state dead, after a turn of its
\* loop that was answered with ErrRetryTransition.
C3_Witness ==
    /\ last.op = "Execute" /\ last.err = Nil /\ last.x = 1
    /\ pc[1] = "idle" /\ Dead(fsms[1])
    /\ fsms[1].rand.set /\ fsms[1].rand.n > fsms[1].stepN

\* The step is a call of Next on x that is given a well-formed covertext and
\* follows a call of Next on x that was answered with ErrRetryTransition.
RetriedNext(x) ==
    /\ last.op = "Next" /\ last.x = x /\ last.err = ErrRetryTransition
    /\ Did("Next", x)
    /\ inbuf[x] = <<"g">>

\* C4: Retry.  When the plugin of the transition attempted says "not
\* yet", Next returns ErrRetryTransition and leaves state and step counter
\* as they were; and the same call made again once the plugin can succeed
\* succeeds and takes the fsm to the destination of that transition.
C4_Retry ==
    [][\A x \in DOMAIN fsms :
        /\ (Did("Next", x) /\ last'.err = ErrRetryTransition)
              => /\ fsms'[x].state = fsms[x].state
                 /\ fsms'[x].stepN = fsms[x].stepN
        /\ RetriedNext(x)
              => /\ last'.err = Nil
                 /\ fsms'[x].state = Last(last.tried).Destination
                 /\ fsms'[x].stepN = fsms[x].stepN + 1]_vars

\* C5: Candidates and fallback.  The candidates of a call of Next are tried
\* in their order; one whose plugin says "not yet" is passed over for the
\* next, so that Next fails for that reason only after the last candidate;
\* and a successful Next ends in the destination of the candidate tried last.
C5_Fallback ==
    [][\A x \in DOMAIN fsms :
        (Did("Next", x) /\ last'.err \in {Nil, ErrRetryTransition}) =>
            /\ last'.tried = SubSeq(last'.cands, 1, Len(last'.tried))
            /\ last'.err = ErrRetryTransition => last'.tried = last'.cands
            /\ last'.err = Nil
                  => fsms'[x].state = Last(last'.tried).Destination]_vars

\* C6: A transition without action block always succeeds when it is tried:
\* Next ends in its destination, the step counter is one higher, and no
\* plugin was called, no byte read or written.
C6_NullAlwaysSucceeds ==
    [][\A x \in DOMAIN fsms :
        (/\ Did("Next", x)
         /\ last'.tried # <<>>
         /\ Last(last'.tried).ActionBlock = "NULL") =>
            /\ last'.err = Nil
            /\ fsms'[x].state = Last(last'.tried).Destination
            /\ fsms'[x].stepN = fsms[x].stepN + 1
            /\ last'.inv = <<>>
            /\ inbuf'[x] = inbuf[x] /\ sent'[x] = sent[x]]_vars

\* Next has just taken a transition without action block, out of a state
\* that has transitions with one too.
C6_Witness ==
    /\ last.op = "Next" /\ last.err = Nil
    /\ last.tried # <<>> /\ Last(last.tried).ActionBlock = "NULL"
    /\ fsms[last.x].state = "b" /\ fsms[last.x].stepN = 1

NormalTransitions(f) ==
    FilterNonErrorTransitions(
        FilterTransitionsBySource(Docs[f.doc].Transitions, f.state))

\* C7: Where no transition applies (no transition leaves the state, or error
\* transitions only), Next fails with ErrNoTransitions, without panic, and
\* leaves state and step counter as they were.
C7_NoTransitions ==
    [][\A x \in DOMAIN fsms :
        (/\ Did("Next", x)
         /\ ~last'.replay.did
         /\ NormalTransitions(fsms[x]) = <<>>) =>
            /\ last'.err = ErrNoTransitions
            /\ ~crashed'[x]
            /\ fsms'[x].state = fsms[x].state
            /\ fsms'[x].stepN = fsms[x].stepN]_vars

\* C8: After Reset the state is start, no variable is set, no close function
\* is left registered, and every close function that was registered has been
\* called, once in all.
C8_Reset ==
    [][\A x \in DOMAIN fsms :
        Did("Reset", x) =>
            /\ fsms'[x].state = "start"
            /\ fsms'[x].vars = EmptyVars
            /\ fsms'[x].closeFuncs = <<>>
            /\ Len(closeLog') = Len(closeLog) + Len(fsms[x].closeFuncs)
            /\ \A i \in 1..Len(fsms[x].closeFuncs) :
                    Count(closeLog', fsms[x].closeFuncs[i]) = 1]_vars

\* Reset has closed a listener and a connection, after a Reset before it.
C8_Witness ==
    /\ last.op = "Reset" /\ last.x = CloneSlot
    /\ Len(closeLog) >= 2
    /\ fsms[CloneSlot].closeFuncs = <<>>
    /\ \E i \in 1..Len(closeLog) : closeLog[i].kind = "conn"

\* C9: Reset closes what was acquired in the reverse order of acquisition.
C9_ReverseOrder ==
    [][\A x \in DOMAIN fsms :
        Did("Reset", x) =>
            SubSeq(closeLog', Len(closeLog) + 1, Len(closeLog'))
                = Reverse(fsms[x].closeFuncs)]_vars

\* C10 as claimed: the clone starts in start at step 0 with an empty variable
\* map, shares cipher cache, stream set and listener map with its parent,
\* and the parent is as it was.
C10_CloneFresh ==
    [][\A x \in DOMAIN fsms :
        Did("Clone", x) =>
            /\ fsms'[CloneSlot].state = "start"
            /\ fsms'[CloneSlot].stepN = 0
            /\ fsms'[CloneSlot].vars = EmptyVars
            /\ fsms'[CloneSlot].fteCache = fsms[x].fteCache
            /\ fsms'[CloneSlot].streamSet = fsms[x].streamSet
            /\ fsms'[CloneSlot].listeners = fsms[x].listeners
            /\ fsms'[x] = fsms[x]]_vars

\* C10: the clone starts in start at step 0 with a copy of the variables
\* of its parent, shares cipher cache, stream set and listener map with it,
\* and the parent is as it was.
C10_CloneCopiesVars ==
    [][\A x \in DOMAIN fsms :
        Did("Clone", x) =>
            /\ fsms'[CloneSlot].state = "start"
            /\ fsms'[CloneSlot].stepN = 0
            /\ fsms'[CloneSlot].vars = fsms[x].vars
            /\ fsms'[CloneSlot].fteCache = fsms[x].fteCache
            /\ fsms'[CloneSlot].streamSet = fsms[x].streamSet
            /\ fsms'[CloneSlot].listeners = fsms[x].listeners
            /\ lmaps' = lmaps
            /\ fsms'[x] = fsms[x]]_vars

\* A parent that has taken a step and holds a variable has just been cloned.
C10_Witness ==
    /\ last.op = "Clone" /\ CloneSlot \in DOMAIN fsms
    /\ fsms[1].stepN > 0 /\ fsms[1].state # "start"
    /\ fsms[1].vars # EmptyVars
    /\ fsms[CloneSlot].vars = fsms[1].vars
    /\ fsms[CloneSlot].stepN = 0

\* The function of the first call of RegisterPlugin for the key in the log,
\* <<>> when there is none.
FirstRegistered(log, key) ==
    IF \A i \in 1..Len(log) : log[i].key # key THEN <<>>
    ELSE log[CHOOSE i \in 1..Len(log) :
                /\ log[i].key = key
                /\ \A j \in 1..(i - 1) : log[j].key # key].fn

C12_RoundTrip ==
    [][/\ (last'.op = "Encrypt" /\ cipher'.calls # cipher.calls
            /\ Len(last'.plaintext) <= Cipher_Capacity(MsgLen))
            => /\ last'.err = Nil
               /\ Len(last'.ciphertext) = MsgLen
               /\ \A i \in 1..MsgLen :
                    \E k \in 1..Len(Alphabet) :
                        last'.ciphertext[i] = Alphabet[k]
       /\ (last'.op = "Decrypt" /\ last.op = "Encrypt"
            /\ last'.input = last.ciphertext)
            => /\ last'.err = Nil
               /\ last'.plaintext = last.plaintext
               /\ last'.remainder = <<>>
       /\ (last'.op = "Close" /\ cipher.open) => last'.err = Nil]_vars

\* The cipher was closed without error after two round trips.
C12_Witness ==
    /\ last.op = "Close" /\ ~last.deferred /\ last.err = Nil
    /\ cipher.trips >= 2 /\ ~cipher.open

\* C13: Cancellation.  When a plugin called during Execute returns
\* CANCELLED, Execute returns with Reset done: the state is start, every
\* close function that was registered has been called and none is left
\* registered, and the fsm is not dead.
C13_Cancellation ==
    [][\A x \in DOMAIN fsms :
        (/\ pc[x] = "loop" /\ Did("Execute", x)
         /\ last'.nexterr = ErrCancelled) =>
            /\ pc'[x] = "idle"
            /\ fsms'[x].state = "start"
            /\ fsms'[x].closeFuncs = <<>>
            /\ \A i \in 1..Len(fsms[x].closeFuncs) :
                    IsClosed(closeLog', fsms[x].closeFuncs[i])
            /\ ~Dead(fsms'[x])]_vars

\* C14: Retry does not desynchronise the PRNG.  On an fsm whose PRNG is set
\* the number of draws made from it for the selection of transitions is the
\* number of steps completed, whatever calls of Next were made: successful,
\* answered with ErrRetryTransition, or failed.
C14_DrawsAreSteps ==
    \A x \in DOMAIN fsms :
        fsms[x].rand.set => fsms[x].rand.n = fsms[x].stepN

\* C15: Replay fires no side effects.  When init replays the n steps made
\* before the instance ID was learned, it calls no plugin (no byte is read
\* or written, no variable is set) and leaves the step counter at n; and
\* when it has run through, n draws have been made from the new PRNG.
C15_ReplayNoSideEffects ==
    [][\A x \in DOMAIN fsms :
        (Did("Next", x) /\ last'.replay.did) =>
            /\ last'.replay.side = Side(<<>>, inbuf[x], sent[x])
            /\ last'.replay.vars = fsms[x].vars
            /\ last'.replay.stepN = fsms[x].stepN
            /\ ~crashed'[x] => last'.replay.rand.n = fsms[x].stepN]_vars

\* The lengths of the paths of the document from the state to dead
RECURSIVE PathLengths(_, _)
PathLengths(doc, state) ==
    IF state = "dead" THEN {0}
    ELSE UNION {{n + 1 : n \in PathLengths(doc, t.Destination)} :
                t \in Range(FilterTransitionsBySource(Docs[doc].Transitions,
                                                      state))}

Attempted(x) ==
    /\ Did("Next", x) \/ Did("Execute", x)
    /\ last'.tried # <<>>
    /\ Last(last'.tried).ActionBlock # "NULL"
    /\ HasActionBlock(fsms[x].doc, Last(last'.tried).ActionBlock)

\* The block of the transition tried last, the module and method an action
\* names, the actions of the block that are tagged with the party, and
\* those of them that the buffered input does not let skip
TriedBlock(x) == ActionBlock(fsms[x].doc, Last(last'.tried).ActionBlock)

Names(action) == <<action.Module, action.Method>>

Own(x) == {j \in 1..Len(TriedBlock(x)) : TriedBlock(x)[j].Party = fsms[x].party}

Unskipped(x) ==
    {j \in Own(x) : \/ TriedBlock(x)[j].Regex = ""
                    \/ Match(TriedBlock(x)[j].Regex, inbuf[x])}

Min(S) == CHOOSE m \in S : \A n \in S : m <= n

\* C17: Party filtering.  When Next attempts a transition with an action
\* block, every plugin it invokes is the plugin of an action of the block
\* tagged with the party of this fsm and of no action tagged with the other
\* party; the plugin invoked is that of the first action of the party, in the
\* order of the block, that is not skipped; and when the block has no action
\* of the party, Next succeeds, the state is the destination, and no plugin
\* is invoked, no byte read or written, no variable set, no listener opened.
C17_PartyFiltering ==
    [][\A x \in DOMAIN fsms :
        Attempted(x) =>
            /\ \A k \in 1..Len(last'.inv) :
                  /\ \E j \in Own(x) : last'.inv[k] = Names(TriedBlock(x)[j])
                  /\ \A j \in (1..Len(TriedBlock(x))) \ Own(x) :
                        last'.inv[k] # Names(TriedBlock(x)[j])
            /\ last'.inv # <<>> =>
                  /\ Unskipped(x) # {}
                  /\ last'.inv = <<Names(TriedBlock(x)[Min(Unskipped(x))])>>
            /\ Own(x) = {} =>
                  /\ last'.nexterr = Nil
                  /\ fsms'[x].state = Last(last'.tried).Destination
                  /\ last'.inv = <<>>
                  /\ inbuf'[x] = inbuf[x] /\ sent'[x] = sent[x]
                  /\ fsms'[x].vars = fsms[x].vars
                  /\ lmaps' = lmaps /\ nres' = nres]_vars

\* The client has taken a transition whose block holds actions of the
\* server only, and before that one from a block where an action of the
\* server comes before its own.
C17_Witness ==
    /\ last.op = "Next" /\ last.x = 1 /\ last.nexterr = Nil
    /\ fsms[1].doc = 4 /\ fsms[1].party = PartyClient
    /\ fsms[1].state = "dead" /\ fsms[1].stepN = 2
    /\ Last(last.tried) = T("a", "dead", "srv", 1, FALSE)
    /\ last.inv = <<>>

\* The first action of the party that is not skipped names a plugin of the
\* registry.
Invocable(x) ==
    /\ Unskipped(x) # {}
    /\ FindPlugin(TriedBlock(x)[Min(Unskipped(x))].Module,
                  TriedBlock(x)[Min(Unskipped(x))].Method) # <<>>

\* C18: Regex guard.  When Next, in a call that replays nothing, attempts a
\* transition whose block has actions of the party: the plugin of an action whose regex the buffered
\* input does not match is not invoked; when an action without regex or with
\* a matching one is there, a plugin is invoked and what it returned last is
\* what comes of the attempt (its error is the error of Next; success moves
\* the state to the destination; "not yet" leaves the state and Next does
\* not succeed); when every action of the party is skipped, no plugin is
\* invoked, the input stays buffered, Next fails, and state and step counter
\* stay.
C18_RegexGuard ==
    [][\A x \in DOMAIN fsms :
        (/\ Attempted(x) /\ ~last'.replay.did /\ Own(x) # {}
         /\ Unskipped(x) # {} => Invocable(x)) =>
            /\ \A j \in Own(x) \ Unskipped(x) :
                  Names(TriedBlock(x)[j]) \notin Range(last'.inv)
            /\ Unskipped(x) # {} =>
                  /\ last'.ret.called /\ last'.inv # <<>>
                  /\ last'.ret.err # Nil =>
                        /\ last'.nexterr = last'.ret.err
                        /\ fsms'[x].state = fsms[x].state
                  /\ (last'.ret.err = Nil /\ last'.ret.success) =>
                        /\ last'.nexterr = Nil
                        /\ fsms'[x].state = Last(last'.tried).Destination
                  /\ (last'.ret.err = Nil /\ ~last'.ret.success) =>
                        /\ last'.nexterr # Nil
                        /\ fsms'[x].state = fsms[x].state
            /\ Unskipped(x) = {} =>
                  /\ ~last'.ret.called /\ last'.inv = <<>>
                  /\ inbuf'[x] = inbuf[x]
                  /\ last'.nexterr # Nil
                  /\ fsms'[x].state = fsms[x].state
                  /\ fsms'[x].stepN = fsms[x].stepN]_vars

\* With a byte buffered that its regex does not match, the client has taken
\* the transition whose block has a guarded action of its own, skipped,
\* before one without regex, invoked.
C18_Witness ==
    /\ last.op = "Next" /\ last.x = 1 /\ last.nexterr = Nil
    /\ fsms[1].doc = 4 /\ fsms[1].party = PartyClient
    /\ Last(last.tried) = T("start", "a", "mix", 1, FALSE)
    /\ last.inv = <<<<"io", "puts">>>>
    /\ inbuf[1] = <<"x">>
    /\ fsms[1].state = "a" /\ fsms[1].stepN = 1

\* C19: Plugin not found.  When the first action of the party that Next does
\* not skip names a module and method that the registry does not hold, Next
\* fails with the plugin-not-found error, no plugin has been invoked and no
\* second transition tried in the call, state and step counter stay, and
\* when Execute made the call it returns that error and does not go on.
C19_PluginNotFound ==
    [][\A x \in DOMAIN fsms :
        (/\ Attempted(x) /\ ~last'.replay.did
         /\ Unskipped(x) # {} /\ ~Invocable(x)) =>
            /\ last'.nexterr = ErrPluginNotFound
            /\ last'.inv = <<>> /\ ~last'.ret.called
            /\ Len(last'.tried) = 1
            /\ fsms'[x].state = fsms[x].state
            /\ fsms'[x].stepN = fsms[x].stepN
            /\ last'.op = "Execute" =>
                  /\ last'.err = ErrPluginNotFound
                  /\ pc'[x] = "idle"]_vars

\* Execute has returned the error of a Next that found no plugin for the
\* first action of the client in the block of the transition from a to c.
C19_Witness ==
    /\ last.op = "Execute" /\ last.x = 1
    /\ last.err = ErrPluginNotFound /\ last.nexterr = ErrPluginNotFound
    /\ pc[1] = "idle"
    /\ fsms[1].doc = 4 /\ fsms[1].party = PartyClient
    /\ last.tried = <<T("a", "c", "ext", 1, FALSE)>>
    /\ last.inv = <<>>
    /\ fsms[1].state = "a" /\ fsms[1].stepN = 1

\* The PRNG after k more draws
RECURSIVE Advance(_, _)
Advance(r, k) == IF k = 0 THEN r ELSE Advance(RandStep(r), k - 1)

\* The PRNG is the one that was seeded with the ID and has made its draws.
SeededWith(r, id) == r.set /\ r = Advance(NewRand(id), r.n)

\* SetInstanceID has been called on the fsm in slot x.
Observed(x) == \E i \in 1..Len(hist[x]) : hist[x][i].op = "SetInstanceID"

\* Next has returned to the fsm in slot x, called on its own or by Execute.
NextReturned(x) ==
    /\ x \in DOMAIN fsms
    /\ Len(hist'[x]) = Len(hist[x]) + 1
    /\ Last(hist'[x]).op = "Next"

\* The transitions from the state of the fsm, those that are no error
\* transitions first
AllCandidates(f) ==
    FilterNonErrorTransitions(
        FilterTransitionsBySource(Docs[f.doc].Transitions, f.state))
    \o FilterErrorTransitions(
        FilterTransitionsBySource(Docs[f.doc].Transitions, f.state))

\* C20: Instance ID and PRNG.  An fsm constructed for the first sender of
\* its document holds a PRNG seeded with its instance ID, and holds it from
\* then on; an fsm constructed for the other party holds no PRNG and no
\* instance ID, and each Next it runs before SetInstanceID is called leaves it
\* without PRNG and takes every transition from its state for a candidate;
\* the first Next after SetInstanceID(id) leaves it with the PRNG seeded
\* with id; and a PRNG once set only makes draws, it is never set anew.
C20_InstanceIDAndPRNG ==
    [][\A x \in DOMAIN fsms :
        /\ last.op = "none" =>
              IF fsms[x].party = FirstSender(fsms[x].doc)
              THEN fsms[x].rand = NewRand(fsms[x].instanceID)
              ELSE fsms[x].rand = NoRand /\ fsms[x].instanceID = 0
        /\ fsms[x].rand.set =>
              /\ fsms'[x].rand.set
              /\ fsms'[x].rand.n >= fsms[x].rand.n
              /\ fsms'[x].rand =
                    Advance(fsms[x].rand, fsms'[x].rand.n - fsms[x].rand.n)
        /\ (~fsms[x].rand.set /\ ~Observed(x) /\ NextReturned(x)) =>
              /\ fsms'[x].rand = NoRand
              /\ last'.cands = AllCandidates(fsms[x])
        /\ (~fsms[x].rand.set /\ Observed(x) /\ NextReturned(x)) =>
              SeededWith(fsms'[x].rand, fsms[x].instanceID)]_vars

\* What holds of it whatever the ID: a PRNG once set only makes draws; before
\* SetInstanceID is called Next leaves the fsm without PRNG; and the first
\* Next after SetInstanceID was called with an ID other than 0 leaves it
\* with the PRNG seeded with that ID.
SeededUnlessZero ==
    [][\A x \in DOMAIN fsms :
        /\ fsms[x].rand.set =>
              /\ fsms'[x].rand.set
              /\ fsms'[x].rand =
                    Advance(fsms[x].rand, fsms'[x].rand.n - fsms[x].rand.n)
        /\ (~fsms[x].rand.set /\ ~Observed(x) /\ NextReturned(x)) =>
              /\ fsms'[x].rand = NoRand
              /\ last'.cands = AllCandidates(fsms[x])
        /\ (/\ ~fsms[x].rand.set /\ Observed(x) /\ NextReturned(x)
            /\ fsms[x].instanceID # 0) =>
              SeededWith(fsms'[x].rand, fsms[x].instanceID)]_vars

\* C21: Errors leave state and step counter.  A Next that returns an error
\* leaves the state and the step counter of the fsm as they were before the
\* call; a Next that returns no error adds one to the step counter; and no
\* other call changes the step counter.
C21_ErrorsLeaveState ==
    [][\A x \in DOMAIN fsms :
        /\ (NextReturned(x) /\ last'.nexterr \notin {Nil, Panic}) =>
              /\ fsms'[x].state = fsms[x].state
              /\ fsms'[x].stepN = fsms[x].stepN
        /\ (NextReturned(x) /\ last'.nexterr = Nil) =>
              fsms'[x].stepN = fsms[x].stepN + 1
        /\ ~NextReturned(x) => fsms'[x].stepN = fsms[x].stepN]_vars

\* C22: Every instance ID seeds.  Whatever instance ID of 0..MaxID the fsm
\* was given with SetInstanceID, 0 included, the Next that follows while it
\* holds no PRNG replays and leaves it with the PRNG seeded with that ID.
C22_EveryIDSeeds ==
    [][\A x \in DOMAIN fsms :
        (~fsms[x].rand.set /\ Observed(x) /\ NextReturned(x)) =>
            /\ last'.replay.did
            /\ SeededWith(fsms'[x].rand, fsms[x].instanceID)]_vars

\* The lengths of the paths of the document from start to the state
RECURSIVE StepsTo(_, _)
StepsTo(doc, state) ==
    IF state = "start" THEN {0}
    ELSE UNION {{n + 1 : n \in StepsTo(doc, Docs[doc].Transitions[i].Source)} :
                i \in {j \in 1..Len(Docs[doc].Transitions) :
                          Docs[doc].Transitions[j].Destination = state}}

\* C23: Step counter and Reset.  After any calls of Next, SetInstanceID,
\* Reset and Execute, the step counter of an fsm is the number of steps it
\* has taken since its state was start: its state is one that the document
\* reaches from start in that many steps, and an fsm in state start has
\* taken none, so that a replay from there replays none.
C23_StepCounter ==
    \A x \in DOMAIN fsms :
        ~crashed[x] => fsms[x].stepN \in StepsTo(fsms[x].doc, fsms[x].state)

\* C24: Open listeners.  After any calls of Listen, Next, Clone, Execute and
\* Reset, every listener in a listener map, shared with clones or not, is
\* one that no Reset has closed, and the connection of an fsm whose Execute
\* is in its loop is one that no Reset has closed.
C24_OpenListeners ==
    /\ \A m \in DOMAIN lmaps : \A p \in DOMAIN lmaps[m] :
          ~IsClosed(closeLog, lmaps[m][p])
    /\ \A x \in DOMAIN fsms :
          pc[x] = "loop" =>
              ~\E i \in 1..Len(closeLog) :
                  closeLog[i].kind = "conn" /\ closeLog[i].id = fsms[x].conn

\* C25: RankerCipher round trip.  Encrypt of data whose big-endian value is
\* below the number of words of MsgLen letters returns such a word and no
\* error, and Decrypt of that word returns the data, byte for byte, data
\* that begin with zero bytes and the empty data included; Encrypt of data
\* whose value is not below it returns the error of the ranker and no
\* ciphertext.
C25_RankerRoundTrip ==
    [][/\ (last'.op = "Encrypt" /\ cipher'.calls # cipher.calls
            /\ Int_SetBytes(last'.data, 0) < NumWords(MsgLen))
            => /\ last'.err = Nil
               /\ InLanguage(last'.ciphertext, MsgLen)
       /\ (last'.op = "Encrypt" /\ cipher'.calls # cipher.calls
            /\ Int_SetBytes(last'.data, 0) >= NumWords(MsgLen))
            => /\ last'.err = ErrOutOfRange
               /\ last'.ciphertext = <<>>
       /\ (last'.op = "Decrypt" /\ last.op = "Encrypt"
            /\ last'.input = last.ciphertext)
            => /\ last'.err = Nil
               /\ last'.plaintext = last.data]_vars

====
